---- MODULE Spec2Model ----
(***************************************************************************)
(* A model of the property code-generation core of cxx-qt-gen:             *)
(*   - the setter that generator/rust/property/setter.rs emits, executed   *)
(*     on a QObject with two properties (check, write, notify);            *)
(*   - the type utilities of generator/utils/rust.rs                       *)
(*     (syn_type_cxx_bridge_to_qualified, syn_type_is_cxx_bridge_unsafe);  *)
(*   - the fragments returned by the setter generator.                     *)
(***************************************************************************)
EXTENDS Integers, Sequences, FiniteSets, TLC

\* ------------------------------------------------------------ bounds
\* Property values are 0..MaxValue.
MaxValue == 2
\* External setter calls in one behaviour.
MaxCalls == 3
\* External setter calls in one behaviour of an object with bound properties.
MaxBoundCalls == 2
\* Threads that call setters.
NumCallers == 2
\* External setter calls in one behaviour of callers that are not serialized.
MaxConcCalls == 2

Props == {"a", "b"}
Values == 0 .. MaxValue
Callers == 1 .. NumCallers

VARIABLES
    stored,       \* the Rust struct's fields: property -> value
    stack,        \* caller -> sequence of frames of the setter calls it is running
    notifyCount,  \* property -> number of emissions of its notify signal
    log,          \* the events so far, as an observer of the object sees them
    initial,      \* the fields as constructed
    bindings,     \* connected observers: <<p, q>> = p's notify calls q's setter with p's value
    pc,           \* position of the generator-side run
    ty,           \* the type expression handed to the generator utilities
    mapping,      \* the qualified mappings handed to the qualifier
    out,          \* result of qualifying ty
    out2,         \* result of qualifying out again
    unsafeRes,    \* result of the safety classifier on ty
    fragment,     \* result of the setter generator
    names         \* the names the setter generator was called with

rtVars == <<stored, stack, notifyCount, log, initial, bindings>>
genVars == <<pc, ty, mapping, out, out2, unsafeRes, fragment, names>>
vars == <<stored, stack, notifyCount, log, initial, bindings,
          pc, ty, mapping, out, out2, unsafeRes, fragment, names>>

\* ------------------------------------------------------------ the generated setter at run time

\* `self.rust().#ident == value`: PartialEq of the property's value type
\* (i32 and QString in the examples, whose equality is the identity of values).
ValueEq(x, y) == x = y

Top(s) == s[Len(s)]
Pop(s) == SubSeq(s, 1, Len(s) - 1)
SetTop(s, f) == [s EXCEPT ![Len(s)] = f]

Quiescent == \A c \in Callers : stack[c] = <<>>

ExternalCalls == {i \in DOMAIN log : log[i].ev = "call" /\ log[i].ext}

Frame(p, v) == [prop |-> p, value |-> v, pc |-> "check", pending |-> <<>>]

\* ev: call | write | notify | return; value: the call's argument; cur: the stored
\* value of prop when the event happens; ext: a call made from outside the object;
\* synced: all properties store the same value when the event happens.
Event(e, p, v, cur, ext) ==
    [ev |-> e, prop |-> p, value |-> v, cur |-> cur, ext |-> ext,
     synced |-> \A q, r \in Props : stored[q] = stored[r]]

\* A thread calls set_<p>(v) while no setter call is running (serialized callers).
SerialCall(c, p, v) ==
    /\ Quiescent
    /\ Cardinality(ExternalCalls) < (IF bindings = {} THEN MaxCalls ELSE MaxBoundCalls)
    /\ stack' = [stack EXCEPT ![c] = Append(@, Frame(p, v))]
    /\ log' = Append(log, Event("call", p, v, stored[p], TRUE))
    /\ UNCHANGED <<stored, notifyCount, initial, bindings>>
    /\ UNCHANGED genVars

\* The check without its early return: an equal value is written and notified again.
CheckAlwaysWrites(c) ==
    /\ stack[c] # <<>>
    /\ Top(stack[c]).pc = "check"
    /\ stack' = [stack EXCEPT ![c] = SetTop(@, [Top(stack[c]) EXCEPT !.pc = "write"])]
    /\ UNCHANGED <<stored, notifyCount, log, initial, bindings>>
    /\ UNCHANGED genVars

\* if self.rust().#ident == value { return; }
Check(c) ==
    /\ stack[c] # <<>>
    /\ Top(stack[c]).pc = "check"
    /\ LET f == Top(stack[c]) IN
         IF ValueEq(stored[f.prop], f.value)
         THEN /\ stack' = [stack EXCEPT ![c] = Pop(@)]
              /\ log' = Append(log, Event("return", f.prop, f.value, stored[f.prop], FALSE))
         ELSE /\ stack' = [stack EXCEPT ![c] = SetTop(@, [f EXCEPT !.pc = "write"])]
              /\ log' = log
    /\ UNCHANGED <<stored, notifyCount, initial, bindings>>
    /\ UNCHANGED genVars

\* The observers connected to p's notify signal, in connection order.
Observers(p) ==
    LET qs == {q \in Props : <<p, q>> \in bindings} IN
    IF qs = {} THEN <<>>
    ELSE LET first == CHOOSE q \in qs : \A r \in qs : q = r \/ q = "a" IN
         IF Cardinality(qs) = 1 THEN <<first>>
         ELSE <<first, CHOOSE q \in qs : q # first>>

\* The notify call moved in front of the write: the signal is emitted while the
\* field still stores the old value, and the field is written afterwards.
NotifyBeforeWrite(c) ==
    /\ stack[c] # <<>>
    /\ Top(stack[c]).pc = "write"
    /\ LET f == Top(stack[c]) IN
         /\ notifyCount' = [notifyCount EXCEPT ![f.prop] = @ + 1]
         /\ stored' = [stored EXCEPT ![f.prop] = f.value]
         /\ stack' = [stack EXCEPT ![c] =
                SetTop(@, [f EXCEPT !.pc = "emit", !.pending = Observers(f.prop)])]
         /\ log' = log \o <<Event("notify", f.prop, stored[f.prop], stored[f.prop], FALSE),
                             Event("write", f.prop, f.value, stored[f.prop], FALSE)>>
    /\ UNCHANGED <<initial, bindings>>
    /\ UNCHANGED genVars

\* The write with the notify call left out: the setter returns after the write.
WriteNoNotify(c) ==
    /\ stack[c] # <<>>
    /\ Top(stack[c]).pc = "write"
    /\ LET f == Top(stack[c]) IN
         /\ stored' = [stored EXCEPT ![f.prop] = f.value]
         /\ stack' = [stack EXCEPT ![c] = SetTop(@, [f EXCEPT !.pc = "emit"])]
         /\ log' = Append(log, Event("write", f.prop, f.value, stored[f.prop], FALSE))
    /\ UNCHANGED <<notifyCount, initial, bindings>>
    /\ UNCHANGED genVars

\* unsafe { self.as_mut().rust_mut().#ident = value; }
Write(c) ==
    /\ stack[c] # <<>>
    /\ Top(stack[c]).pc = "write"
    /\ LET f == Top(stack[c]) IN
         /\ stored' = [stored EXCEPT ![f.prop] = f.value]
         /\ stack' = [stack EXCEPT ![c] = SetTop(@, [f EXCEPT !.pc = "notify"])]
         /\ log' = Append(log, Event("write", f.prop, f.value, stored[f.prop], FALSE))
    /\ UNCHANGED <<notifyCount, initial, bindings>>
    /\ UNCHANGED genVars

\* self.as_mut().#notify_ident(): the signal is emitted; its observers run
\* synchronously, one after the other, before the call returns.
Notify(c) ==
    /\ stack[c] # <<>>
    /\ Top(stack[c]).pc = "notify"
    /\ LET f == Top(stack[c]) IN
         /\ notifyCount' = [notifyCount EXCEPT ![f.prop] = @ + 1]
         /\ stack' = [stack EXCEPT ![c] =
                SetTop(@, [f EXCEPT !.pc = "emit", !.pending = Observers(f.prop)])]
         /\ log' = Append(log, Event("notify", f.prop, stored[f.prop], stored[f.prop], FALSE))
    /\ UNCHANGED <<stored, initial, bindings>>
    /\ UNCHANGED genVars

\* An observer of p's notify reads p and calls the bound property's setter with it.
RunObserver(c) ==
    /\ stack[c] # <<>>
    /\ Top(stack[c]).pc = "emit"
    /\ Top(stack[c]).pending # <<>>
    /\ LET f == Top(stack[c])
           q == Head(f.pending)
           v == stored[f.prop] IN
         /\ stack' = [stack EXCEPT ![c] =
                Append(SetTop(@, [f EXCEPT !.pending = Tail(@)]), Frame(q, v))]
         /\ log' = Append(log, Event("call", q, v, stored[q], FALSE))
    /\ UNCHANGED <<stored, notifyCount, initial, bindings>>
    /\ UNCHANGED genVars

\* The notify call has returned and the setter returns.
Return(c) ==
    /\ stack[c] # <<>>
    /\ Top(stack[c]).pc = "emit"
    /\ Top(stack[c]).pending = <<>>
    /\ LET f == Top(stack[c]) IN
         /\ stack' = [stack EXCEPT ![c] = Pop(@)]
         /\ log' = Append(log, Event("return", f.prop, f.value, stored[f.prop], FALSE))
    /\ UNCHANGED <<stored, notifyCount, initial, bindings>>
    /\ UNCHANGED genVars

\* A thread calls set_<p>(v) whatever the other threads are doing: the setter
\* takes no lock, and a thread runs one call at a time. Threads are
\* interchangeable, so the idle thread with the least number makes the call.
Call(c, p, v) ==
    /\ stack[c] = <<>>
    /\ \A d \in Callers : stack[d] = <<>> => c <= d
    /\ Cardinality(ExternalCalls) < MaxConcCalls
    /\ stack' = [stack EXCEPT ![c] = Append(@, Frame(p, v))]
    /\ log' = Append(log, Event("call", p, v, stored[p], TRUE))
    /\ UNCHANGED <<stored, notifyCount, initial, bindings>>
    /\ UNCHANGED genVars

\* Another thread is at the field write of the property of c's call: c's access
\* to the field and that write are not ordered (a data race).
Racing(c) ==
    \E d \in Callers \ {c} :
       /\ stack[d] # <<>>
       /\ Top(stack[d]).prop = Top(stack[c]).prop
       /\ Top(stack[d]).pc = "write"

\* The read of the equality check races with a write: the comparison may come
\* out either way, whatever the field stores.
RacingCheck(c) ==
    /\ stack[c] # <<>>
    /\ Top(stack[c]).pc = "check"
    /\ Racing(c)
    /\ LET f == Top(stack[c]) IN
         \E equal \in BOOLEAN :
            IF equal
            THEN /\ stack' = [stack EXCEPT ![c] = Pop(@)]
                 /\ log' = Append(log, Event("return", f.prop, f.value, stored[f.prop], FALSE))
            ELSE /\ stack' = [stack EXCEPT ![c] = SetTop(@, [f EXCEPT !.pc = "write"])]
                 /\ log' = log
    /\ UNCHANGED <<stored, notifyCount, initial, bindings>>
    /\ UNCHANGED genVars

\* The field write races with another write: the field may end up with any value.
RacingWrite(c) ==
    /\ stack[c] # <<>>
    /\ Top(stack[c]).pc = "write"
    /\ Racing(c)
    /\ LET f == Top(stack[c]) IN
         \E w \in Values :
            /\ stored' = [stored EXCEPT ![f.prop] = w]
            /\ stack' = [stack EXCEPT ![c] = SetTop(@, [f EXCEPT !.pc = "notify"])]
            /\ log' = Append(log, Event("write", f.prop, w, stored[f.prop], FALSE))
    /\ UNCHANGED <<notifyCount, initial, bindings>>
    /\ UNCHANGED genVars

\* ------------------------------------------------------------ type expressions (syn::Type)

\* syn::Path { leading_colon, segments }, PathSegment { ident, arguments }.
NoArguments == [kind |-> "None"]
Segment(id) == [ident |-> id, arguments |-> NoArguments]
\* args: GenericArgument values, [kind |-> "Type", ty |-> t], [kind |-> "Lifetime"]
\* or [kind |-> "Binding", ty |-> t] (Item = t).
AngleSegment(id, args) ==
    [ident |-> id, arguments |-> [kind |-> "AngleBracketed", args |-> args]]
\* Fn(inputs) sugar: PathArguments::Parenthesized.
ParenSegment(id, inputs) ==
    [ident |-> id, arguments |-> [kind |-> "Parenthesized", inputs |-> inputs]]
TypeArg(t) == [kind |-> "Type", ty |-> t]
LifetimeArg == [kind |-> "Lifetime"]
BindingArg(t) == [kind |-> "Binding", ty |-> t]

Path(colon, segs) == [leading_colon |-> colon, segments |-> segs]
\* Path::from(ident)
PathFromIdent(id) == Path(FALSE, <<Segment(id)>>)

TypePath(p) == [kind |-> "Path", path |-> p]
TypeArray(e, n) == [kind |-> "Array", elem |-> e, len |-> n]
\* output: <<>> for ReturnType::Default, <<t>> for ReturnType::Type(t).
TypeBareFn(ins, output) == [kind |-> "BareFn", inputs |-> ins, output |-> output]
TypePtr(m, e) == [kind |-> "Ptr", mutable |-> m, elem |-> e]
TypeReference(m, e) == [kind |-> "Reference", mutable |-> m, elem |-> e]
TypeSlice(e) == [kind |-> "Slice", elem |-> e]
TypeTuple(es) == [kind |-> "Tuple", elems |-> es]
\* Every other variant of syn::Type: Never (no inner type), Paren (one inner type).
TypeOther(es) == [kind |-> "Other", elems |-> es]

Ident(id) == TypePath(PathFromIdent(id))

\* ------------------------------------------------------------ generator/utils/rust.rs

\* The lookup left out: the identifier is returned as a path.
IdentNeverMapped(ident, qualified_mappings) == PathFromIdent(ident)

\* BTreeMap::get: the mapped path of ident, if any.
syn_ident_cxx_bridge_to_qualified_impl(ident, qualified_mappings) ==
    IF ident \in DOMAIN qualified_mappings
    THEN qualified_mappings[ident]
    ELSE PathFromIdent(ident)

\* The match on the first segment's name: <<prefix>> for Some(prefix), <<>> for None.
QualifiedPrefix(name) ==
    IF name \in {"CxxString", "CxxVector", "SharedPtr", "UniquePtr", "WeakPtr"}
    THEN << <<"cxx">> >>
    ELSE IF name = "Pin" THEN << <<"core", "pin">> >>
    ELSE <<>>

\* The prefix inserted at the front part by part without .rev(): it ends reversed.
RECURSIVE InjectPrefixForward(_, _)
InjectPrefixForward(segments, prefix) ==
    IF prefix = <<>> THEN segments
    ELSE InjectPrefixForward(<<Segment(prefix[1])>> \o segments, Tail(prefix))

\* for part in qualified_prefix.iter().rev() { segments.insert(0, segment) }
RECURSIVE InjectPrefix(_, _)
InjectPrefix(segments, prefix) ==
    IF prefix = <<>> THEN segments
    ELSE InjectPrefix(<<Segment(prefix[Len(prefix)])>> \o segments,
                      SubSeq(prefix, 1, Len(prefix) - 1))

\* Path::get_ident: <<ident>> for a path that is one bare identifier, else <<>>.
GetIdent(path) ==
    IF /\ ~path.leading_colon
       /\ Len(path.segments) = 1
       /\ path.segments[1].arguments.kind = "None"
    THEN <<path.segments[1].ident>>
    ELSE <<>>

\* The prefix looked up by the last segment's name instead of the first's.
LastSegmentPrefix(segments) ==
    IF segments = <<>> THEN <<>> ELSE QualifiedPrefix(segments[Len(segments)].ident)

\* if let Some(segment) = ty_path.path.segments.first() { match segment.ident .. }
FirstSegmentPrefix(segments) ==
    IF segments = <<>> THEN <<>> ELSE QualifiedPrefix(segments[1].ident)

RECURSIVE syn_type_cxx_bridge_to_qualified(_, _)

\* The types qualified and put back in reverse order.
QualifyEachReversed(types, qualified_mappings) ==
    [i \in DOMAIN types |->
        syn_type_cxx_bridge_to_qualified(types[Len(types) + 1 - i], qualified_mappings)]

\* iter_mut().for_each(|x| *x = syn_type_cxx_bridge_to_qualified(x, ..)): each type
\* of a list (tuple elements, function inputs) qualified in place.
QualifyEach(types, qualified_mappings) ==
    [i \in DOMAIN types |-> syn_type_cxx_bridge_to_qualified(types[i], qualified_mappings)]

syn_type_cxx_bridge_to_qualified(t, qualified_mappings) ==
    LET Q(x) == syn_type_cxx_bridge_to_qualified(x, qualified_mappings)
        QArg(arg) == IF arg.kind = "Type" THEN [arg EXCEPT !.ty = Q(arg.ty)] ELSE arg
        QSegment(segment) ==
            IF segment.arguments.kind = "AngleBracketed"
            THEN [segment EXCEPT !.arguments.args =
                     [i \in DOMAIN segment.arguments.args |-> QArg(segment.arguments.args[i])]]
            ELSE segment
    IN
    CASE t.kind = "Array" -> [t EXCEPT !.elem = Q(t.elem)]
      [] t.kind = "BareFn" ->
            [t EXCEPT !.output = IF t.output = <<>> THEN <<>> ELSE <<Q(t.output[1])>>,
                      !.inputs = QualifyEach(t.inputs, qualified_mappings)]
      [] t.kind = "Path" ->
            LET converted == [i \in DOMAIN t.path.segments |-> QSegment(t.path.segments[i])]
                prefix == FirstSegmentPrefix(converted)
                injected == IF prefix = <<>> THEN converted
                            ELSE InjectPrefix(converted, prefix[1])
                path == [t.path EXCEPT !.segments = injected]
                ident == GetIdent(path)
            IN [t EXCEPT !.path =
                   IF ident = <<>> THEN path
                   ELSE syn_ident_cxx_bridge_to_qualified_impl(ident[1], qualified_mappings)]
      [] t.kind = "Ptr" -> [t EXCEPT !.elem = Q(t.elem)]
      [] t.kind = "Reference" -> [t EXCEPT !.elem = Q(t.elem)]
      [] t.kind = "Slice" -> [t EXCEPT !.elem = Q(t.elem)]
      [] t.kind = "Tuple" -> [t EXCEPT !.elems = QualifyEach(t.elems, qualified_mappings)]
      [] OTHER -> t

\* A classifier that looks for a raw pointer inside every shape.
RECURSIVE IsUnsafeAnyNestedPointer(_)
IsUnsafeAnyNestedPointer(t) ==
    CASE t.kind = "Path" ->
            \E s \in DOMAIN t.path.segments :
               LET arguments == t.path.segments[s].arguments IN
               /\ arguments.kind = "AngleBracketed"
               /\ \E g \in DOMAIN arguments.args :
                     /\ arguments.args[g].kind = "Type"
                     /\ IsUnsafeAnyNestedPointer(arguments.args[g].ty)
      [] t.kind = "Ptr" -> TRUE
      [] t.kind \in {"Reference", "Array", "Slice"} -> IsUnsafeAnyNestedPointer(t.elem)
      [] t.kind = "Tuple" -> \E i \in DOMAIN t.elems : IsUnsafeAnyNestedPointer(t.elems[i])
      [] OTHER -> FALSE

RECURSIVE syn_type_is_cxx_bridge_unsafe(_)
syn_type_is_cxx_bridge_unsafe(t) ==
    CASE t.kind = "Path" ->
            \E s \in DOMAIN t.path.segments :
               LET arguments == t.path.segments[s].arguments IN
               /\ arguments.kind = "AngleBracketed"
               /\ \E g \in DOMAIN arguments.args :
                     /\ arguments.args[g].kind = "Type"
                     /\ syn_type_is_cxx_bridge_unsafe(arguments.args[g].ty)
      [] t.kind = "Ptr" -> TRUE
      [] t.kind = "Reference" -> syn_type_is_cxx_bridge_unsafe(t.elem)
      [] OTHER -> FALSE

\* ------------------------------------------------------------ generator/rust/property/setter.rs

\* generator::rust::types::is_unsafe_cxx_type, the classifier the setter generator
\* calls: a raw pointer is unsafe; a reference is as unsafe as its referent; a path
\* is unsafe iff one of its generic type arguments is; every other shape is safe.
RECURSIVE is_unsafe_cxx_type(_)
is_unsafe_cxx_type(t) ==
    IF t.kind = "Ptr" THEN TRUE
    ELSE IF t.kind = "Reference" THEN is_unsafe_cxx_type(t.elem)
    ELSE IF t.kind = "Path" THEN
        LET typeArgs == UNION {
                {seg.arguments.args[g].ty : g \in {h \in DOMAIN seg.arguments.args :
                                                     seg.arguments.args[h].kind = "Type"}}
                : seg \in {t.path.segments[i] : i \in {j \in DOMAIN t.path.segments :
                              t.path.segments[j].arguments.kind = "AngleBracketed"}}}
        IN \E a \in typeArgs : is_unsafe_cxx_type(a)
    ELSE FALSE

\* One statement of a generated function body.
Stmt(op, target, inUnsafe) == [op |-> op, target |-> target, in_unsafe |-> inUnsafe]

\* The setter with the unsafe qualifier never put on the declaration.
GenerateNeverUnsafe(idents, qobject_idents, t) ==
    [cxx_bridge |-> <<
        [cxx_name |-> idents.setter.cpp, qualifiers |-> <<>>,
         fn |-> idents.setter.rust, self_ty |-> qobject_idents.rust_struct.rust,
         cpp |-> qobject_idents.cpp_class.rust, value |-> t] >>,
     implementation |-> <<
        [impl |-> qobject_idents.rust_struct.rust, doc |-> <<"hidden">>,
         fn |-> idents.setter.rust, cpp |-> qobject_idents.cpp_class.rust, value |-> t,
         body |-> << Stmt("call", <<"cpp", idents.setter.rust>>, FALSE) >>],
        [impl |-> qobject_idents.cpp_class.rust,
         doc |-> <<"Setter for the Q_PROPERTY ", idents.name.rust>>,
         fn |-> idents.setter.rust, cpp |-> qobject_idents.cpp_class.rust, value |-> t,
         body |-> << Stmt("return_if_equal", <<"rust", idents.name.rust>>, FALSE),
                     Stmt("assign", <<"rust_mut", idents.name.rust>>, TRUE),
                     Stmt("call", <<"self", idents.notify.rust>>, FALSE) >>] >>]

\* The setter with the delegating wrapper on the Rust struct left out.
GenerateNoWrapper(idents, qobject_idents, t) ==
    [cxx_bridge |-> <<
        [cxx_name |-> idents.setter.cpp,
         qualifiers |-> IF is_unsafe_cxx_type(t) THEN <<"unsafe">> ELSE <<>>,
         fn |-> idents.setter.rust, self_ty |-> qobject_idents.rust_struct.rust,
         cpp |-> qobject_idents.cpp_class.rust, value |-> t] >>,
     implementation |-> <<
        [impl |-> qobject_idents.cpp_class.rust,
         doc |-> <<"Setter for the Q_PROPERTY ", idents.name.rust>>,
         fn |-> idents.setter.rust, cpp |-> qobject_idents.cpp_class.rust, value |-> t,
         body |-> << Stmt("return_if_equal", <<"rust", idents.name.rust>>, FALSE),
                     Stmt("assign", <<"rust_mut", idents.name.rust>>, TRUE),
                     Stmt("call", <<"self", idents.notify.rust>>, FALSE) >>] >>]

\* generate: the RustFragmentPair of a property's setter.
generate(idents, qobject_idents, t) ==
    LET cpp_class_name_rust == qobject_idents.cpp_class.rust
        rust_struct_name_rust == qobject_idents.rust_struct.rust
        setter_cpp == idents.setter.cpp
        setter_rust == idents.setter.rust
        ident == idents.name.rust
        notify_ident == idents.notify.rust
        has_unsafe == IF is_unsafe_cxx_type(t) THEN <<"unsafe">> ELSE <<>>
    IN
    [cxx_bridge |-> <<
        \* extern "Rust" { #[cxx_name = ..] #has_unsafe fn #setter_rust(self: &mut .., cpp: Pin<&mut ..>, value: #ty); }
        [cxx_name |-> setter_cpp, qualifiers |-> has_unsafe,
         fn |-> setter_rust, self_ty |-> rust_struct_name_rust,
         cpp |-> cpp_class_name_rust, value |-> t] >>,
     implementation |-> <<
        \* impl #rust_struct_name_rust { pub fn #setter_rust(..) { cpp.#setter_rust(value); } }
        [impl |-> rust_struct_name_rust, doc |-> <<"hidden">>,
         fn |-> setter_rust, cpp |-> cpp_class_name_rust, value |-> t,
         body |-> << Stmt("call", <<"cpp", setter_rust>>, FALSE) >>],
        \* impl #cpp_class_name_rust { pub fn #setter_rust(mut self: Pin<&mut Self>, value: #ty) { .. } }
        [impl |-> cpp_class_name_rust, doc |-> <<"Setter for the Q_PROPERTY ", ident>>,
         fn |-> setter_rust, cpp |-> cpp_class_name_rust, value |-> t,
         body |-> << Stmt("return_if_equal", <<"rust", ident>>, FALSE),
                     Stmt("assign", <<"rust_mut", ident>>, TRUE),
                     Stmt("call", <<"self", notify_ident>>, FALSE) >>] >>]

\* ------------------------------------------------------------ inputs

\* Shapes nested around a leaf in the type expressions handed to the qualifier.
MaxQualifyDepth == 2
\* Shapes nested around a leaf in the type expressions handed to the classifier
\* and the generator.
MaxClassifyDepth == 2

\* The shapes of depth d + 1 around a type e of depth d: every variant the
\* utilities match on, with both mutabilities, one and two elements, a present
\* and an absent return type, type and non-type generic arguments, arguments on
\* a later segment and a leading colon.
Wrappers(e) ==
    {TypeArray(e, 1), TypeSlice(e), TypeOther(<<e>>),
     TypePtr(TRUE, e), TypePtr(FALSE, e),
     TypeReference(TRUE, e), TypeReference(FALSE, e),
     TypeTuple(<<e>>), TypeTuple(<<Ident("UniquePtr"), e>>),
     TypeBareFn(<<e>>, <<>>), TypeBareFn(<<Ident("UniquePtr"), e>>, <<Ident("SharedPtr")>>),
     TypeBareFn(<<>>, <<e>>),
     TypePath(Path(FALSE, <<AngleSegment("UniquePtr", <<TypeArg(e)>>)>>)),
     TypePath(Path(FALSE, <<AngleSegment("Pin", <<TypeArg(e)>>)>>)),
     TypePath(Path(FALSE, <<AngleSegment("Vector", <<LifetimeArg, TypeArg(e)>>)>>)),
     TypePath(Path(FALSE, <<AngleSegment("Iterator", <<BindingArg(e)>>)>>)),
     TypePath(Path(FALSE, <<ParenSegment("Fn", <<e>>)>>)),
     TypePath(Path(FALSE, <<Segment("ffi"), AngleSegment("WeakPtr", <<TypeArg(e)>>)>>)),
     TypePath(Path(TRUE, <<AngleSegment("CxxVector", <<TypeArg(e)>>)>>))}

RECURSIVE TypesOfDepth(_, _)
TypesOfDepth(leaves, d) ==
    IF d = 0 THEN leaves
    ELSE LET inner == TypesOfDepth(leaves, d - 1) IN
         inner \cup UNION {Wrappers(e) : e \in inner}

QualifyLeaves ==
    {Ident(id) : id \in {"CxxString", "CxxVector", "SharedPtr", "UniquePtr", "WeakPtr",
                         "Pin", "A", "T"}}
    \cup {TypeOther(<<>>), TypePath(Path(FALSE, <<Segment("ffi"), Segment("B")>>))}

\* i32-like names, the never type, and *mut T as in the tests of the classifier.
ClassifyLeaves == {Ident("T"), TypeOther(<<>>), TypePtr(TRUE, Ident("T"))}

\* BTreeMap<Ident, Path>: none; a short name to its module path (as in the tests);
\* a value that is itself a key; a value that is a shorthand name; shorthand
\* names as keys.
Mappings ==
    {<<>>,
     [A |-> Path(FALSE, <<Segment("ffi"), Segment("B")>>)],
     [A |-> PathFromIdent("T"), T |-> Path(FALSE, <<Segment("ffi"), Segment("B")>>)],
     [A |-> PathFromIdent("UniquePtr")],
     [CxxString |-> Path(FALSE, <<Segment("ffi"), Segment("S")>>),
      Pin |-> Path(FALSE, <<Segment("ffi"), Segment("P")>>)]}

\* QPropertyName and QObjectName of the examples' properties and objects.
PropertyNames ==
    {[name |-> [rust |-> "number"],
      setter |-> [cpp |-> "setNumber", rust |-> "set_number"],
      notify |-> [cpp |-> "numberChanged", rust |-> "number_changed"]],
     [name |-> [rust |-> "string"],
      setter |-> [cpp |-> "setString", rust |-> "set_string"],
      notify |-> [cpp |-> "stringChanged", rust |-> "string_changed"]]}

ObjectNames ==
    {[cpp_class |-> [rust |-> "MyObject"], rust_struct |-> [rust |-> "MyObjectRust"]],
     [cpp_class |-> [rust |-> "MyObjectQt"], rust_struct |-> [rust |-> "MyObject"]]}

NoNames == [idents |-> <<>>, qobject_idents |-> <<>>]

\* ------------------------------------------------------------ runs of the utilities

Qualify ==
    /\ pc = "start"
    /\ out' = syn_type_cxx_bridge_to_qualified(ty, mapping)
    /\ pc' = "qualified"
    /\ UNCHANGED <<ty, mapping, out2, unsafeRes, fragment, names>>
    /\ UNCHANGED rtVars

\* The qualified type is qualified again with the same mappings.
Requalify ==
    /\ pc = "qualified"
    /\ out2' = syn_type_cxx_bridge_to_qualified(out, mapping)
    /\ pc' = "requalified"
    /\ UNCHANGED <<ty, mapping, out, unsafeRes, fragment, names>>
    /\ UNCHANGED rtVars

Classify ==
    /\ pc = "start"
    /\ unsafeRes' = syn_type_is_cxx_bridge_unsafe(ty)
    /\ pc' = "classified"
    /\ UNCHANGED <<ty, mapping, out, out2, fragment, names>>
    /\ UNCHANGED rtVars

Generate(idents, qobject_idents) ==
    /\ pc = "start"
    /\ fragment' = generate(idents, qobject_idents, ty)
    /\ names' = [idents |-> idents, qobject_idents |-> qobject_idents]
    /\ pc' = "generated"
    /\ UNCHANGED <<ty, mapping, out, out2, unsafeRes>>
    /\ UNCHANGED rtVars

\* ------------------------------------------------------------ specifications

\* No run of the generator: the object is looked at.
GenIdle ==
    /\ pc = "idle"
    /\ ty = TypeOther(<<>>)
    /\ mapping = <<>>
    /\ out = TypeOther(<<>>)
    /\ out2 = TypeOther(<<>>)
    /\ unsafeRes = FALSE
    /\ fragment = <<>>
    /\ names = NoNames

\* No object: the generator is looked at.
NoObject ==
    /\ stored = [p \in Props |-> 0]
    /\ initial = stored
    /\ stack = [c \in Callers |-> <<>>]
    /\ notifyCount = [p \in Props |-> 0]
    /\ log = <<>>
    /\ bindings = {}

GenStart(types, mappings) ==
    /\ pc = "start"
    /\ ty \in types
    /\ mapping \in mappings
    /\ out = TypeOther(<<>>)
    /\ out2 = TypeOther(<<>>)
    /\ unsafeRes = FALSE
    /\ fragment = <<>>
    /\ names = NoNames

\* The qualifier on every type expression and mapping of the bounds.
InitQualify == NoObject /\ GenStart(TypesOfDepth(QualifyLeaves, MaxQualifyDepth), Mappings)

NextQualify == Qualify \/ Requalify

SpecQualify == InitQualify /\ [][NextQualify]_vars

\* The classifier and the setter generator on every type expression of the bounds.
InitGen == NoObject /\ GenStart(TypesOfDepth(ClassifyLeaves, MaxClassifyDepth), {<<>>})

NextGen ==
    \/ Classify
    \/ \E idents \in PropertyNames, qobject_idents \in ObjectNames :
          Generate(idents, qobject_idents)

SpecGen == InitGen /\ [][NextGen]_vars

InitObject(b) ==
    /\ stored \in [Props -> Values]
    /\ initial = stored
    /\ stack = [c \in Callers |-> <<>>]
    /\ notifyCount = [p \in Props |-> 0]
    /\ log = <<>>
    /\ bindings = b

\* An object with no observers connected; setter calls are serialized.
Init == InitObject({}) /\ GenIdle

Next ==
    \/ \E c \in Callers, p \in Props, v \in Values : SerialCall(c, p, v)
    \/ \E c \in Callers : Check(c)
    \/ \E c \in Callers : Write(c)
    \/ \E c \in Callers : Notify(c)
    \/ \E c \in Callers : Return(c)

Spec == Init /\ [][Next]_vars

\* An object whose two properties are bound to each other through observers.
MutualBindings == {<<"a", "b">>, <<"b", "a">>}

InitBind == InitObject(MutualBindings) /\ GenIdle

NextBind ==
    \/ \E c \in Callers, p \in Props, v \in Values : SerialCall(c, p, v)
    \/ \E c \in Callers : Check(c)
    \/ \E c \in Callers : Write(c)
    \/ \E c \in Callers : Notify(c)
    \/ \E c \in Callers : RunObserver(c)
    \/ \E c \in Callers : Return(c)

\* A setter call that has started keeps running: its thread is not suspended forever.
Running ==
    \E c \in Callers : Check(c) \/ Write(c) \/ Notify(c) \/ RunObserver(c) \/ Return(c)

SpecBind == InitBind /\ [][NextBind]_vars /\ WF_vars(Running)

\* The object as constructed by Default (cxxqt_object.rs: number 0, string empty).
InitConc == Init /\ stored = [p \in Props |-> 0]

\* An object with no observers connected whose setter is called by threads that
\* do not synchronize with each other. The calls are on one property: the setter
\* of a property reads and writes the field of that property and fires its
\* notify only, so calls on another property touch nothing of these.
NextConc ==
    \/ \E c \in Callers, v \in Values : Call(c, "a", v)
    \/ \E c \in Callers : Check(c)
    \/ \E c \in Callers : RacingCheck(c)
    \/ \E c \in Callers : Write(c)
    \/ \E c \in Callers : RacingWrite(c)
    \/ \E c \in Callers : Notify(c)
    \/ \E c \in Callers : Return(c)

SpecConc == InitConc /\ [][NextConc]_vars

\* ------------------------------------------------------------ reading the log

\* The events of the call started at log[i]: those after i, up to the next call
\* on the same property from outside.
SameCall(i, j) ==
    /\ j > i
    /\ \A k \in DOMAIN log :
         (i < k /\ k <= j) => ~(log[k].ev = "call" /\ log[k].ext)

NotifiesIn(i, p) ==
    Cardinality({j \in DOMAIN log : SameCall(i, j) /\ log[j].ev = "notify" /\ log[j].prop = p})

WritesIn(i, p) ==
    {j \in DOMAIN log : SameCall(i, j) /\ log[j].ev = "write" /\ log[j].prop = p}

\* The return of the external call started at log[i] (0 while it runs): the last
\* event of the call once no frame is left.
ReturnOf(i) ==
    LET js == {j \in DOMAIN log : SameCall(i, j)} IN
    IF js = {} \/ (~Quiescent /\ \A j \in DOMAIN log : j > i => SameCall(i, j)) THEN 0
    ELSE CHOOSE j \in js : \A k \in js : k <= j

CallsOn(p) == SelectSeq(log, LAMBDA e : e.ev = "call" /\ e.ext /\ e.prop = p)

CallIndexes(p) == {i \in ExternalCalls : log[i].prop = p}

\* ------------------------------------------------------------ claims on the setter

\* C1: under serialized calls, a call whose value equals the stored value returns
\* without a write and without a notify; a call whose value differs stores the new
\* value and fires notify exactly once; so between calls the notify count of a
\* property equals the number of calls that changed its stored value.
C1_NotifyOncePerChange ==
    /\ \A i \in ExternalCalls :
         LET e == log[i]
             r == ReturnOf(i) IN
         /\ NotifiesIn(i, e.prop) <= 1
         /\ ValueEq(e.cur, e.value) =>
               /\ NotifiesIn(i, e.prop) = 0
               /\ WritesIn(i, e.prop) = {}
               /\ r # 0 => log[r].cur = e.cur
         /\ (~ValueEq(e.cur, e.value) /\ r # 0) =>
               /\ NotifiesIn(i, e.prop) = 1
               /\ Cardinality(WritesIn(i, e.prop)) = 1
               /\ log[r].cur = e.value
    /\ Quiescent =>
         \A p \in Props :
            /\ notifyCount[p] =
                 Cardinality({i \in CallIndexes(p) : log[ReturnOf(i)].cur # log[i].cur})
            /\ stored[p] = IF CallIndexes(p) = {} THEN initial[p]
                           ELSE LET last == CHOOSE i \in CallIndexes(p) :
                                              \A k \in CallIndexes(p) : k <= i
                                IN log[ReturnOf(last)].cur

\* A property was set to a new value, then to the same value again, then changed.
C1_Witness ==
    /\ Quiescent
    /\ notifyCount["a"] = 2
    /\ Len(CallsOn("a")) = 3
    /\ \E i \in CallIndexes("a") : log[i].cur = log[i].value

Changing(cs) == \A i \in 1 .. Len(cs) - 1 : cs[i].value # cs[i + 1].value
Distinct(cs) == \A i, j \in 1 .. Len(cs) : i # j => cs[i].value # cs[j].value

\* C2 as stated: a sequence of N distinct values fires notify exactly N times,
\* whatever value the property stored before the first call.
C2_AsStated ==
    Quiescent =>
       \A p \in Props :
          Distinct(CallsOn(p)) => notifyCount[p] = Len(CallsOn(p))

\* C2 amended: a changing sequence of N >= 1 values fires notify N times when the
\* first value differs from the value stored before the first call and N - 1
\* times when it equals it; the second of two calls in a row with an equal value
\* fires nothing, and the two fire at most once together.
C2_NotifyPerDistinctValue ==
    /\ Quiescent =>
         \A p \in Props :
            LET cs == CallsOn(p) IN
            (cs # <<>> /\ Changing(cs)) =>
               notifyCount[p] = Len(cs) - (IF cs[1].value = initial[p] THEN 1 ELSE 0)
    /\ \A p \in Props : \A i, j \in CallIndexes(p) :
         (i < j /\ log[i].value = log[j].value
                /\ \A k \in CallIndexes(p) : ~(i < k /\ k < j)) =>
            /\ NotifiesIn(j, p) = 0
            /\ NotifiesIn(i, p) + NotifiesIn(j, p) <= 1

\* Three distinct values were set on a property that stored the first of them:
\* the first call fired nothing and the other two fired once each.
C2_Witness ==
    /\ Quiescent
    /\ Len(CallsOn("a")) = 3
    /\ Distinct(CallsOn("a"))
    /\ CallsOn("a")[1].value = initial["a"]
    /\ notifyCount["a"] = 2

\* The last call made from outside the object.
LastCall == CHOOSE i \in ExternalCalls : \A k \in ExternalCalls : k <= i

\* C10 as stated: once the object is quiescent again after an external setter
\* call, both bound properties hold the written value.
C10_AsStated ==
    (Quiescent /\ ExternalCalls # {}) =>
       \A p \in Props : stored[p] = log[LastCall].value

\* Depth of nested setter calls one external call can cause through the bindings:
\* set_p, set_q from p's observer, and set_p again from q's observer.
BindingDepth == Cardinality(Props) + 1

\* The state part of C10 amended: bounded nesting, at most one notify per
\* property and external call, and the values once the object is quiescent.
C10_Bounded ==
    /\ \A c \in Callers : Len(stack[c]) <= BindingDepth
    /\ \A i \in ExternalCalls : \A p \in Props : NotifiesIn(i, p) <= 1
    /\ (Quiescent /\ ExternalCalls # {}) =>
          LET e == log[LastCall] IN
          /\ stored[e.prop] = e.value
          /\ (e.cur # e.value \/ e.synced)
               => \A p \in Props : stored[p] = e.value

\* C10 amended: with two properties bound to each other, every external setter
\* call reaches a quiescent state after at most one notify per property, with the
\* written property holding the written value, and with both properties holding
\* it whenever the call changed the written property or the two properties were
\* equal before the call.
C10_BindingLoopsTerminate ==
    /\ []C10_Bounded
    /\ (~Quiescent) ~> Quiescent

\* An external write went through both properties: each notified once, the
\* nested call back into the first property returned early, and all is quiet.
C10_Witness ==
    /\ bindings = MutualBindings
    /\ Quiescent
    /\ Cardinality(ExternalCalls) = 1
    /\ notifyCount = [p \in Props |-> 1]
    /\ \A p \in Props : stored[p] = log[LastCall].value /\ initial[p] # stored[p]

\* The frames of the setter calls that have written and are notifying.
NotifyingFrames ==
    UNION {{stack[c][k] : k \in {h \in DOMAIN stack[c] : stack[c][h].pc \in {"notify", "emit"}}} :
           c \in Callers}

WriteEvents(p) == {j \in DOMAIN log : log[j].ev = "write" /\ log[j].prop = p}

\* C11: in a value-changing setter call the write comes before the notify: every
\* notify of a property directly follows the write of the call that fired it,
\* and when it fires the property stores the value passed to that call and no
\* longer the value it stored when the call began; from the write until the
\* call returns, so during the notification, the property stores the passed
\* value; and a property never has more notifies than writes.
C11_WriteBeforeNotify ==
    /\ \A j \in DOMAIN log :
          log[j].ev = "notify" =>
             /\ j >= 3
             /\ log[j - 1].ev = "write"
             /\ log[j - 1].prop = log[j].prop
             /\ log[j - 2].ev = "call"
             /\ log[j - 2].prop = log[j].prop
             /\ log[j - 1].value = log[j - 2].value
             /\ log[j].cur = log[j - 2].value
             /\ log[j].cur # log[j - 2].cur
    /\ \A f \in NotifyingFrames : stored[f.prop] = f.value
    /\ \A p \in Props : notifyCount[p] <= Cardinality(WriteEvents(p))

\* A value-changing call on `a` has written and fired its notify and has not
\* returned yet: the notification is in progress and `a` stores the new value.
C11_Witness ==
    /\ Len(log) = 3
    /\ log[3].ev = "notify"
    /\ notifyCount["a"] = 1
    /\ \E c \in Callers :
          /\ stack[c] # <<>>
          /\ Top(stack[c]).pc = "emit"
          /\ Top(stack[c]).prop = "a"
          /\ stored["a"] = Top(stack[c]).value
          /\ initial["a"] # stored["a"]

\* The calls and returns on p, in the order they happened.
CallsAndReturns(p) == SelectSeq(log, LAMBDA e : e.prop = p /\ e.ev \in {"call", "return"})

\* The setter calls on p so far were serialized: each returned before the next began.
SerializedOn(p) ==
    LET es == CallsAndReturns(p) IN
    \A i \in DOMAIN es : es[i].ev = (IF i % 2 = 1 THEN "call" ELSE "return")

\* The number of writes that changed the stored value of p.
Changes(p) == Cardinality({j \in WriteEvents(p) : log[j].cur # log[j].value})

RunningOn(p) == \E c \in Callers : stack[c] # <<>> /\ Top(stack[c]).prop = p

\* C12: the setter takes no lock, so calls of different threads may overlap; as
\* long as the calls on one property were serialized, whatever the threads that
\* made them, the notifies of that property never exceed the changes of its
\* stored value, and equal them once no call on it is running. (That calls which do overlap on one property fire notify twice
\* for one change is the state of C12_Witness.)
C12_SerializedNoRedundantNotify ==
    \A p \in Props :
       SerializedOn(p) =>
          /\ notifyCount[p] <= Changes(p)
          /\ ~RunningOn(p) => notifyCount[p] = Changes(p)

\* Two calls with the same new value overlapped on `a`: both passed the equality
\* check, both wrote that value, and notify fired twice for one change.
C12_Witness ==
    /\ Quiescent
    /\ ~SerializedOn("a")
    /\ Len(CallsOn("a")) = 2
    /\ CallsOn("a")[1].value = CallsOn("a")[2].value
    /\ CallsOn("a")[1].cur = CallsOn("a")[2].cur
    /\ CallsOn("a")[1].cur # CallsOn("a")[1].value
    /\ \A j \in WriteEvents("a") : log[j].value = CallsOn("a")[1].value
    /\ Cardinality(WriteEvents("a")) = 2
    /\ Changes("a") = 1
    /\ notifyCount["a"] = 2
    /\ stored["a"] = CallsOn("a")[1].value

\* ------------------------------------------------------------ reading type expressions

ShorthandNames == {"CxxString", "CxxVector", "SharedPtr", "UniquePtr", "WeakPtr", "Pin"}

Idents(path) == [i \in DOMAIN path.segments |-> path.segments[i].ident]

\* The types that are generic type arguments of a path, on any segment.
GenericTypeArgs(path) ==
    UNION {{path.segments[s].arguments.args[g].ty :
               g \in {h \in DOMAIN path.segments[s].arguments.args :
                         path.segments[s].arguments.args[h].kind = "Type"}} :
           s \in {r \in DOMAIN path.segments :
                     path.segments[r].arguments.kind = "AngleBracketed"}}

\* What is reached from t through references and generic type arguments only.
RECURSIVE ThroughRefsAndGenerics(_)
ThroughRefsAndGenerics(t) ==
    {t} \cup
    (IF t.kind = "Reference" THEN ThroughRefsAndGenerics(t.elem)
     ELSE IF t.kind = "Path"
          THEN UNION {ThroughRefsAndGenerics(a) : a \in GenericTypeArgs(t.path)}
          ELSE {})

\* The arguments of a path in order, over all its segments.
RECURSIVE ArgsOf(_)
ArgsOf(segments) ==
    IF segments = <<>> THEN <<>>
    ELSE LET a == segments[1].arguments IN
         (IF a.kind = "AngleBracketed" THEN a.args
          ELSE IF a.kind = "Parenthesized" THEN <<a>>
          ELSE <<>>) \o ArgsOf(Tail(segments))

\* The paths of t paired with the paths at the same places of u, through arrays,
\* functions, generic type arguments, pointers, references, slices and tuples.
RECURSIVE PathPairs(_, _)
PathPairs(t, u) ==
    LET Both(ts, us) ==
            UNION {PathPairs(ts[i], us[i]) : i \in DOMAIN ts \cap DOMAIN us} IN
    IF t.kind # u.kind THEN {}
    ELSE CASE t.kind \in {"Array", "Ptr", "Reference", "Slice"} -> PathPairs(t.elem, u.elem)
           [] t.kind = "Tuple" -> Both(t.elems, u.elems)
           [] t.kind = "BareFn" -> Both(t.inputs, u.inputs) \cup Both(t.output, u.output)
           [] t.kind = "Path" ->
                LET ta == ArgsOf(t.path.segments)
                    ua == ArgsOf(u.path.segments) IN
                {<<t.path, u.path>>} \cup
                UNION {PathPairs(ta[i].ty, ua[i].ty) :
                          i \in {j \in DOMAIN ta \cap DOMAIN ua :
                                    ta[j].kind = "Type" /\ ua[j].kind = "Type"}}
           [] OTHER -> {}

\* The paths of t at those places.
RECURSIVE PathsIn(_)
PathsIn(t) ==
    CASE t.kind \in {"Array", "Ptr", "Reference", "Slice"} -> PathsIn(t.elem)
      [] t.kind = "Tuple" -> UNION {PathsIn(t.elems[i]) : i \in DOMAIN t.elems}
      [] t.kind = "BareFn" ->
            UNION {PathsIn(t.inputs[i]) : i \in DOMAIN t.inputs}
            \cup UNION {PathsIn(t.output[i]) : i \in DOMAIN t.output}
      [] t.kind = "Path" -> {t.path} \cup UNION {PathsIn(a) : a \in GenericTypeArgs(t.path)}
      [] OTHER -> {}

IsBareIdent(path) ==
    ~path.leading_colon /\ Len(path.segments) = 1 /\ path.segments[1].arguments = NoArguments

\* u is t but for prefix segments and mapped identifiers at its paths.
RECURSIVE SameShape(_, _, _)
SameShape(t, u, m) ==
    LET All(ts, us) ==
            Len(ts) = Len(us) /\ \A i \in DOMAIN ts : SameShape(ts[i], us[i], m) IN
    /\ t.kind = u.kind
    /\ CASE t.kind = "Array" -> t.len = u.len /\ SameShape(t.elem, u.elem, m)
         [] t.kind \in {"Ptr", "Reference"} ->
               t.mutable = u.mutable /\ SameShape(t.elem, u.elem, m)
         [] t.kind = "Slice" -> SameShape(t.elem, u.elem, m)
         [] t.kind = "Tuple" -> All(t.elems, u.elems)
         [] t.kind = "BareFn" -> All(t.inputs, u.inputs) /\ All(t.output, u.output)
         [] t.kind = "Path" ->
               LET ta == ArgsOf(t.path.segments)
                   ua == ArgsOf(u.path.segments) IN
               /\ Len(ta) = Len(ua)
               /\ \A i \in DOMAIN ta :
                     IF ta[i].kind = "Type"
                     THEN ua[i].kind = "Type" /\ SameShape(ta[i].ty, ua[i].ty, m)
                     ELSE ua[i] = ta[i]
               /\ \/ /\ u.path.leading_colon = t.path.leading_colon
                     /\ Idents(u.path) \in {Idents(t.path), <<"cxx">> \o Idents(t.path),
                                             <<"core", "pin">> \o Idents(t.path)}
                  \/ /\ IsBareIdent(t.path)
                     /\ t.path.segments[1].ident \in DOMAIN m
                     /\ u.path = m[t.path.segments[1].ident]
         [] OTHER -> u = t

\* ------------------------------------------------------------ claims on the type utilities

\* C3: the classifier returns a boolean for every type: true for a raw pointer
\* whatever it points to, for a reference what its referent gives, for a path
\* true iff a generic type argument on one of its segments is unsafe, and false
\* for every array, function, slice, tuple and other shape even with a raw
\* pointer inside; so a type is unsafe iff a raw pointer is reached from it
\* through references and generic type arguments alone.
C3_Classification ==
    pc = "classified" =>
       /\ unsafeRes \in BOOLEAN
       /\ unsafeRes = (\E u \in ThroughRefsAndGenerics(ty) : u.kind = "Ptr")
       /\ ty.kind = "Ptr" => unsafeRes
       /\ ty.kind = "Reference" => unsafeRes = syn_type_is_cxx_bridge_unsafe(ty.elem)
       /\ ty.kind = "Path" =>
             unsafeRes = (\E a \in GenericTypeArgs(ty.path) : syn_type_is_cxx_bridge_unsafe(a))
       /\ ty.kind \in {"Array", "BareFn", "Slice", "Tuple", "Other"} => ~unsafeRes

\* A reference to a slice of raw pointers was classified safe.
C3_Witness ==
    /\ pc = "classified"
    /\ ty = TypeReference(FALSE, TypeSlice(TypePtr(TRUE, Ident("T"))))
    /\ unsafeRes = FALSE

\* C4: the setter's declaration in the bridge carries the unsafe qualifier iff
\* the value type is classified unsafe, and the field write of the mutator is in
\* an unsafe block whatever the classification.
C4_UnsafeQualifier ==
    pc = "generated" =>
       LET declaration == fragment.cxx_bridge[1]
           mutator == fragment.implementation[Len(fragment.implementation)] IN
       /\ declaration.qualifiers = (IF syn_type_is_cxx_bridge_unsafe(ty) THEN <<"unsafe">> ELSE <<>>)
       /\ \E i \in DOMAIN mutator.body :
             /\ mutator.body[i].op = "assign"
             /\ mutator.body[i].target = <<"rust_mut", names.idents.name.rust>>
             /\ mutator.body[i].in_unsafe

\* A setter was generated for a reference to a vector of raw pointers, and its
\* declaration is unsafe.
C4_Witness ==
    /\ pc = "generated"
    /\ ty = TypeReference(FALSE,
               TypePath(Path(FALSE, <<AngleSegment("Vector",
                   <<LifetimeArg, TypeArg(TypePtr(TRUE, Ident("T")))>>)>>)))
    /\ fragment.cxx_bridge[1].qualifiers = <<"unsafe">>

\* C9: one call of the setter generator returns exactly one declaration for the
\* bridge and exactly two implementations, the delegating wrapper on the Rust
\* struct and then the mutator on the C++ class, all three naming the setter.
C9_Pairing ==
    pc = "generated" =>
       /\ Len(fragment.cxx_bridge) = 1
       /\ Len(fragment.implementation) = 2
       /\ fragment.cxx_bridge[1].fn = names.idents.setter.rust
       /\ fragment.cxx_bridge[1].cxx_name = names.idents.setter.cpp
       /\ fragment.cxx_bridge[1].value = ty
       /\ \A i \in DOMAIN fragment.implementation :
             /\ fragment.implementation[i].fn = names.idents.setter.rust
             /\ fragment.implementation[i].value = ty
       /\ fragment.implementation[1].impl = names.qobject_idents.rust_struct.rust
       /\ fragment.implementation[1].body =
             <<Stmt("call", <<"cpp", names.idents.setter.rust>>, FALSE)>>
       /\ fragment.implementation[2].impl = names.qobject_idents.cpp_class.rust
       /\ fragment.implementation[2].body[Len(fragment.implementation[2].body)] =
             Stmt("call", <<"self", names.idents.notify.rust>>, FALSE)

\* The setter of `string` was generated for a safe type on MyObject.
C9_Witness ==
    /\ pc = "generated"
    /\ names.idents.setter.rust = "set_string"
    /\ names.qobject_idents.cpp_class.rust = "MyObject"
    /\ ty = TypeReference(FALSE, Ident("T"))
    /\ fragment.cxx_bridge[1].qualifiers = <<>>
    /\ Len(fragment.implementation) = 2

\* C5: every path whose leading segment is a shorthand name, at every depth
\* reached through arrays, functions, generic type arguments, pointers,
\* references, slices and tuples, gets its prefix in front of its segments: cxx
\* for CxxString, CxxVector, SharedPtr, UniquePtr and WeakPtr, and core, pin (two
\* segments, in that order) for Pin; a path with another leading name gets none.
C5_ShorthandPrefix ==
    pc = "qualified" =>
       /\ {pr[1] : pr \in PathPairs(ty, out)} = PathsIn(ty)
       /\ \A pr \in PathPairs(ty, out) :
             LET lead == pr[1].segments[1].ident IN
             /\ lead \in {"CxxString", "CxxVector", "SharedPtr", "UniquePtr", "WeakPtr"} =>
                   /\ Idents(pr[2]) = <<"cxx">> \o Idents(pr[1])
                   /\ pr[2].segments[1].arguments = NoArguments
             /\ lead = "Pin" =>
                   /\ Idents(pr[2]) = <<"core", "pin">> \o Idents(pr[1])
                   /\ pr[2].segments[1].arguments = NoArguments
                   /\ pr[2].segments[2].arguments = NoArguments
             /\ lead \notin ShorthandNames =>
                   \/ Idents(pr[2]) = Idents(pr[1])
                   \/ /\ IsBareIdent(pr[1])
                      /\ lead \in DOMAIN mapping
                      /\ pr[2] = mapping[lead]

\* Pin<UniquePtr<T>> became core::pin::Pin<cxx::UniquePtr<T>>.
C5_Witness ==
    /\ pc = "qualified"
    /\ ty = TypePath(Path(FALSE, <<AngleSegment("Pin", <<TypeArg(
               TypePath(Path(FALSE, <<AngleSegment("UniquePtr", <<TypeArg(Ident("T"))>>)>>)))>>)>>))
    /\ out = TypePath(Path(FALSE, <<Segment("core"), Segment("pin"),
               AngleSegment("Pin", <<TypeArg(
                  TypePath(Path(FALSE, <<Segment("cxx"),
                     AngleSegment("UniquePtr", <<TypeArg(Ident("T"))>>)>>)))>>)>>))

\* C6 as stated: every path that is one bare identifier and a key of the
\* mappings is replaced by the mapped path, also when the key is a shorthand name.
C6_AsStated ==
    pc = "qualified" =>
       \A pr \in PathPairs(ty, out) :
          (IsBareIdent(pr[1]) /\ pr[1].segments[1].ident \in DOMAIN mapping) =>
             pr[2] = mapping[pr[1].segments[1].ident]

\* C6 amended: a path that is one bare identifier, a key of the mappings and not
\* a shorthand name is replaced by the mapped path; a bare shorthand name gets
\* its prefix and is not looked up in the mappings, key or not; a bare identifier
\* that is neither is returned unchanged.
C6_MappedIdent ==
    pc = "qualified" =>
       \A pr \in PathPairs(ty, out) :
          IsBareIdent(pr[1]) =>
             LET id == pr[1].segments[1].ident IN
             /\ (id \in DOMAIN mapping /\ id \notin ShorthandNames) => pr[2] = mapping[id]
             /\ id \in ShorthandNames =>
                   pr[2] = Path(FALSE, IF id = "Pin"
                                       THEN <<Segment("core"), Segment("pin"), Segment(id)>>
                                       ELSE <<Segment("cxx"), Segment(id)>>)
             /\ (id \notin DOMAIN mapping /\ id \notin ShorthandNames) => pr[2] = pr[1]

\* A mapped identifier inside a generic argument was replaced by its path.
C6_Witness ==
    /\ pc = "qualified"
    /\ "A" \in DOMAIN mapping
    /\ ty = TypePath(Path(FALSE, <<AngleSegment("UniquePtr", <<TypeArg(Ident("A"))>>)>>))
    /\ out = TypePath(Path(FALSE, <<Segment("cxx"), AngleSegment("UniquePtr",
               <<TypeArg(TypePath(Path(FALSE, <<Segment("ffi"), Segment("B")>>)))>>)>>))

\* C7 as stated: qualifying the qualified type again changes nothing, for every
\* type and every mapping.
C7_AsStated == pc = "requalified" => out2 = out

\* Every mapped path is fully qualified: the qualifier leaves it as it is.
MappingQualified(m) ==
    \A k \in DOMAIN m :
       syn_type_cxx_bridge_to_qualified(TypePath(m[k]), m) = TypePath(m[k])

\* C7 amended: when every mapped path is itself fully qualified (its leading
\* segment is no shorthand name and it is no bare identifier mapped to another
\* path), qualifying the qualified type again changes nothing.
C7_Idempotent ==
    /\ \A k \in DOMAIN mapping :
          MappingQualified(mapping) =>
             /\ mapping[k].segments[1].ident \notin ShorthandNames
             /\ IsBareIdent(mapping[k]) /\ mapping[k].segments[1].ident \in DOMAIN mapping
                   => mapping[mapping[k].segments[1].ident] = mapping[k]
    /\ (pc = "requalified" /\ MappingQualified(mapping)) => out2 = out

\* A type with a shorthand name and a mapped identifier was qualified twice.
C7_Witness ==
    /\ pc = "requalified"
    /\ "A" \in DOMAIN mapping
    /\ MappingQualified(mapping)
    /\ ty = TypeTuple(<<Ident("UniquePtr"), Ident("A")>>)
    /\ out # ty
    /\ out2 = out

\* C8: the qualified type has the shape of the input: the same variant and,
\* inside, the same array length, tuple arity and order, function inputs and
\* return type, mutability, and generic arguments in number and order; only
\* prefix segments and mapped identifiers differ, and another shape is returned
\* as it is.
C8_ShapePreserved ==
    pc = "qualified" =>
       /\ SameShape(ty, out, mapping)
       /\ ty.kind = "Other" => out = ty

\* A function type with two inputs and a return type was qualified.
C8_Witness ==
    /\ pc = "qualified"
    /\ ty = TypeBareFn(<<Ident("UniquePtr"), Ident("A")>>, <<Ident("SharedPtr")>>)
    /\ out # ty
    /\ Len(out.inputs) = 2
    /\ Len(out.output) = 1

====
